---- MODULE Spec2Model ----
(***************************************************************************)
(* Model of the stock-screenshot OCR service (src/src/ocr_service.py) and  *)
(* of its HTTP endpoint (src/api/v1/endpoints/ocr.py).                     *)
(*                                                                         *)
(* A Python str is a sequence of characters; a character is a TLA+ string  *)
(* naming it ("0", "A", " ", and "U+00DF" for the non-ASCII letter         *)
(* LATIN SMALL LETTER SHARP S).  A Python int (a JSON number among the     *)
(* candidates) is the mark "int" followed by its decimal digits.           *)
(***************************************************************************)
EXTENDS Naturals, Sequences, FiniteSets, TLC

VARIABLES
    \* _validate_codes called on its own
    codes, valid_codes, revalidated, vpc,
    \* _parse_response: the text handed to it last, what it did, where the call is
    response_text, parsed, ppc,
    \* the configuration and one StockOCRService instance
    config, spc, _provider, _gemini_client, _anthropic_client,
    \* history: the client constructors _init_clients called, the provider calls made
    ctor_attempts, backend_calls,
    \* the last entry-point call, what it yielded, the last OcrResponse
    call, result, response,
    \* get_ocr_service: the module global, each thread's position and locals
    _ocr_service, tpc, local, returned, constructed

vValidate == <<codes, valid_codes, revalidated, vpc>>
vParse == <<response_text, parsed, ppc>>
vService == <<config, spc, _provider, _gemini_client, _anthropic_client,
              ctor_attempts, backend_calls, call, result, response>>
vSingleton == <<_ocr_service, tpc, local, returned, constructed>>
vars == <<vValidate, vParse, vService, vSingleton>>

(***************************************************************************)
(* Bounds                                                                  *)
(***************************************************************************)
\* longest single candidate string handed to _validate_codes
MaxLen == 7
\* longest candidate list handed to _validate_codes
MaxCodes == 3
\* most segments (stretches of prose, JSON objects) in one provider response
MaxSegments == 3
\* most provider calls made through one service instance
MaxCalls == 2
\* threads that call get_ocr_service for the first time together
NumThreads == 3

(***************************************************************************)
(* Characters and the str methods the service uses                         *)
(***************************************************************************)
Digits == {"0", "1", "2", "3", "4", "5", "6", "7", "8", "9"}
UpperLetters == {"A", "B", "C", "D", "E", "F", "G", "H", "I", "J", "K", "L", "M",
                 "N", "O", "P", "Q", "R", "S", "T", "U", "V", "W", "X", "Y", "Z"}
LowerLetters == {"a", "b", "c", "d", "e", "f", "g", "h", "i", "j", "k", "l", "m",
                 "n", "o", "p", "q", "r", "s", "t", "u", "v", "w", "x", "y", "z"}
\* letters outside ASCII (str.isalpha() is true of them)
NonAsciiLetters == {"U+00DF", "U+0131"}
AsciiLetters == UpperLetters \cup LowerLetters
Letters == AsciiLetters \cup NonAsciiLetters
\* what str.strip() removes
Whitespace == {" ", "\t", "\n", "\r"}

LowerSeq == <<"a", "b", "c", "d", "e", "f", "g", "h", "i", "j", "k", "l", "m",
              "n", "o", "p", "q", "r", "s", "t", "u", "v", "w", "x", "y", "z">>
UpperSeq == <<"A", "B", "C", "D", "E", "F", "G", "H", "I", "J", "K", "L", "M",
              "N", "O", "P", "Q", "R", "S", "T", "U", "V", "W", "X", "Y", "Z">>

\* str.upper() of one character: a string, since the uppercase of U+00DF is "SS"
UpperChar(c) ==
    IF c \in LowerLetters
    THEN <<UpperSeq[CHOOSE i \in 1..26 : LowerSeq[i] = c]>>
    ELSE IF c = "U+00DF" THEN <<"S", "S">>
    ELSE IF c = "U+0131" THEN <<"I">>
    ELSE <<c>>

RECURSIVE Upper(_)
\* str.upper()
Upper(s) == IF s = <<>> THEN <<>> ELSE UpperChar(Head(s)) \o Upper(Tail(s))

RECURSIVE LStrip(_)
LStrip(s) == IF s # <<>> /\ Head(s) \in Whitespace THEN LStrip(Tail(s)) ELSE s

RECURSIVE RStrip(_)
RStrip(s) ==
    IF s # <<>> /\ s[Len(s)] \in Whitespace THEN RStrip(SubSeq(s, 1, Len(s) - 1)) ELSE s

\* str.strip()
Strip(s) == RStrip(LStrip(s))

\* the int whose decimal digits are ds
Number(ds) == <<"int">> \o ds

IsNumber(v) == v # <<>> /\ Head(v) = "int"

\* str(code): the decimal digits of an int, a str as it is
Str(code) == IF IsNumber(code) THEN Tail(code) ELSE code

\* str.startswith
StartsWith(s, p) == Len(s) >= Len(p) /\ SubSeq(s, 1, Len(p)) = p

AllIn(s, S) == \A i \in 1..Len(s) : s[i] \in S

\* re.match(r'^[..]{lo,hi}$', s): S is the character class; without re.MULTILINE
\* the $ matches at the end of the string and before a newline that ends it
ReMatchClass(s, S, lo, hi) ==
    \/ Len(s) >= lo /\ Len(s) <= hi /\ AllIn(s, S)
    \/ /\ Len(s) >= lo + 1
       /\ Len(s) <= hi + 1
       /\ s[Len(s)] = "\n"
       /\ AllIn(SubSeq(s, 1, Len(s) - 1), S)

(***************************************************************************)
(* StockOCRService._is_valid_code                                          *)
(***************************************************************************)
valid_prefixes ==
    { <<"6", "0", "0">>, <<"6", "0", "1">>, <<"6", "0", "3">>, <<"6", "0", "5">>,
      <<"0", "0", "0">>, <<"0", "0", "1">>, <<"0", "0", "2">>,
      <<"3", "0", "0">>, <<"3", "0", "1">>,
      <<"6", "8", "8">>, <<"6", "8", "9">>,
      <<"8", "3", "0">>, <<"8", "3", "1">>, <<"8", "3", "2">>, <<"8", "3", "3">>,
      <<"4", "3", "0">>, <<"4", "2", "0">> }

_is_valid_code(code) ==
    IF ReMatchClass(code, Digits, 6, 6)
    THEN \E p \in valid_prefixes : StartsWith(code, p)
    ELSE IF ReMatchClass(code, Digits, 5, 5) THEN TRUE
    ELSE IF ReMatchClass(Upper(code), UpperLetters, 1, 5) THEN TRUE
    ELSE FALSE

(***************************************************************************)
(* StockOCRService._validate_codes                                         *)
(***************************************************************************)
RECURSIVE ValidateLoop(_, _, _)
\* the for loop: rest is what is left of the list, acc is valid_codes, seen is seen
ValidateLoop(rest, acc, seen) ==
    IF rest = <<>> THEN acc
    ELSE LET code == Strip(Str(Head(rest)))
         IN  IF code \in seen THEN ValidateLoop(Tail(rest), acc, seen)
             ELSE IF _is_valid_code(code)
                  THEN ValidateLoop(Tail(rest), Append(acc, code), seen \cup {code})
                  ELSE ValidateLoop(Tail(rest), acc, seen)

RECURSIVE LoopKeepingDuplicates(_, _)
LoopKeepingDuplicates(rest, acc) ==
    IF rest = <<>> THEN acc
    ELSE LET code == Strip(Str(Head(rest)))
         IN  IF _is_valid_code(code) THEN LoopKeepingDuplicates(Tail(rest), Append(acc, code))
             ELSE LoopKeepingDuplicates(Tail(rest), acc)

\* _validate_codes without seen.add(code): nothing is ever skipped as a duplicate
ValidateCodesKeepingDuplicates(cs) == LoopKeepingDuplicates(cs, <<>>)

RECURSIVE LoopSeenUntrimmed(_, _, _)
LoopSeenUntrimmed(rest, acc, seen) ==
    IF rest = <<>> THEN acc
    ELSE LET code == Strip(Str(Head(rest)))
         IN  IF Head(rest) \in seen THEN LoopSeenUntrimmed(Tail(rest), acc, seen)
             ELSE IF _is_valid_code(code)
                  THEN LoopSeenUntrimmed(Tail(rest), Append(acc, code),
                                         seen \cup {Head(rest)})
                  ELSE LoopSeenUntrimmed(Tail(rest), acc, seen)

\* _validate_codes with the seen-set keyed on the candidate before it is trimmed
ValidateCodesSeenUntrimmed(cs) == LoopSeenUntrimmed(cs, <<>>, {})

_validate_codes(cs) == ValidateLoop(cs, <<>>, {})

(***************************************************************************)
(* The provider's response text                                            *)
(*                                                                         *)
(* A response is a sequence of segments, each a stretch of prose without   *)
(* braces or one brace-delimited object without nested braces:             *)
(*   kind   "prose" or "object"                                            *)
(*   chars  the prose                                                      *)
(*   quoted whether the object's text holds "codes" in double quotes       *)
(*   form   "ok" when json.loads decodes the object, "bad" when it raises  *)
(*          JSONDecodeError (a trailing comma in the array)                *)
(*   val    the value under the key codes: "list" (items), "null",         *)
(*          "number" (a non-zero number) or "missing" (no such key: the    *)
(*          quoted word is a value, as in {"note": "codes"})               *)
(*   items  the strings and numbers of the array                           *)
(***************************************************************************)
Prose(cs) ==
    [kind |-> "prose", chars |-> cs, quoted |-> FALSE, form |-> "ok",
     val |-> "missing", items |-> <<>>]

Object(q, f, v, it) ==
    [kind |-> "object", chars |-> <<>>, quoted |-> q, form |-> f, val |-> v, items |-> it]

RECURSIVE Flatten(_)
\* the concatenation of a sequence of strings
Flatten(ss) == IF ss = <<>> THEN <<>> ELSE Head(ss) \o Flatten(Tail(ss))

\* the text of one JSON string
Quote(cs) == <<"\"">> \o cs \o <<"\"">>

\* the text of the array of an object: its strings and numbers, comma-separated; an
\* object json cannot decode ends its array in a comma
ArrayText(seg) ==
    <<"[">>
    \o Flatten([i \in 1..Len(seg.items) |->
                  (IF IsNumber(seg.items[i]) THEN Str(seg.items[i]) ELSE Quote(seg.items[i]))
                  \o (IF i < Len(seg.items) THEN <<",", " ">> ELSE <<>>)])
    \o (IF seg.form = "bad" THEN <<",">> ELSE <<>>)
    \o <<"]">>

\* the characters of a segment
SegmentText(seg) ==
    IF seg.kind = "prose" THEN seg.chars
    ELSE IF ~seg.quoted THEN <<"{", "\"", "n", "\"", ":", " ", "0", "}">>
    ELSE IF seg.val = "missing"
    THEN <<"{", "\"", "n", "o", "t", "e", "\"", ":", " ">> \o Quote(<<"c", "o", "d", "e", "s">>)
         \o <<"}">>
    ELSE <<"{">> \o Quote(<<"c", "o", "d", "e", "s">>) \o <<":", " ">>
         \o (CASE seg.val = "list" -> ArrayText(seg)
               [] seg.val = "null" -> <<"n", "u", "l", "l">>
               [] seg.val = "number" -> <<"5">>)
         \o <<"}">>

\* the characters of the whole response
RawText(text) == Flatten([i \in 1..Len(text) |-> SegmentText(text[i])])

(***************************************************************************)
(* StockOCRService._extract_codes_by_regex                                 *)
(***************************************************************************)
\* \w of a str pattern: Unicode letters, digits and the underscore
WordChars == Digits \cup Letters \cup {"_"}

\* \b([0-9]{n})\b matches at position i of cs
DigitRunAt(cs, i, n) ==
    /\ i + n - 1 <= Len(cs)
    /\ \A k \in i..(i + n - 1) : cs[k] \in Digits
    /\ (i = 1 \/ cs[i - 1] \notin WordChars)
    /\ (i + n - 1 = Len(cs) \/ cs[i + n] \notin WordChars)

RECURSIVE FindAllFrom(_, _, _)
\* re.finditer(r'\b([0-9]{n})\b', cs) from position i on: the matches in text order
FindAllFrom(cs, i, n) ==
    IF i > Len(cs) THEN <<>>
    ELSE IF DigitRunAt(cs, i, n)
    THEN <<SubSeq(cs, i, i + n - 1)>> \o FindAllFrom(cs, i + n, n)
    ELSE FindAllFrom(cs, i + 1, n)

FindAll(cs, n) == FindAllFrom(cs, 1, n)

RECURSIVE ExtractLoop(_, _)
\* one for loop over the matches ms; st is [codes, seen]
ExtractLoop(ms, st) ==
    IF ms = <<>> THEN st
    ELSE LET code == Head(ms)
         IN  IF code \notin st.seen /\ _is_valid_code(code)
             THEN ExtractLoop(Tail(ms),
                              [codes |-> Append(st.codes, code), seen |-> st.seen \cup {code}])
             ELSE ExtractLoop(Tail(ms), st)

\* _extract_codes_by_regex with the 5-digit pass before the 6-digit pass
ExtractFiveDigitsFirst(cs) ==
    ExtractLoop(FindAll(cs, 6), ExtractLoop(FindAll(cs, 5), [codes |-> <<>>, seen |-> {}])).codes

_extract_codes_by_regex(cs) ==
    ExtractLoop(FindAll(cs, 5), ExtractLoop(FindAll(cs, 6), [codes |-> <<>>, seen |-> {}])).codes

(***************************************************************************)
(* StockOCRService._parse_response                                         *)
(***************************************************************************)
\* the error strings of the service, in English
ErrNoValidCode == "no valid stock code recognized"

\* re.search(r'\{[^{}]*"codes"[^{}]*\}', response_text, re.DOTALL): the position
\* of the first object holding "codes", 0 when there is none
JsonMatch(text) ==
    LET hits == {i \in 1..Len(text) : text[i].kind = "object" /\ text[i].quoted}
    IN  IF hits = {} THEN 0 ELSE CHOOSE i \in hits : \A j \in hits : i <= j

\* the phase-2 tail of _parse_response
RegexFallback(text) ==
    LET found == _extract_codes_by_regex(RawText(text))
    IN  IF found # <<>>
        THEN [codes |-> found, error |-> "", raised |-> "", via |-> "regex"]
        ELSE [codes |-> <<>>, error |-> ErrNoValidCode, raised |-> "", via |-> "none"]

\* what _parse_response does: the pair it returns (codes, error), the exception it
\* raises if any, and the return statement it left by ("json", "regex", "none")
_parse_response(text) ==
    LET m == JsonMatch(text)
    IN  IF m = 0 THEN RegexFallback(text)
        ELSE IF text[m].form = "bad" THEN RegexFallback(text)
        ELSE IF text[m].val \in {"missing", "null"} THEN RegexFallback(text)
        ELSE IF text[m].val = "number"
        THEN [codes |-> <<>>, error |-> "", raised |-> "TypeError", via |-> "raise"]
        ELSE IF text[m].items = <<>> THEN RegexFallback(text)
        ELSE [codes |-> _validate_codes(text[m].items), error |-> "", raised |-> "",
              via |-> "json"]

NotParsed == [codes |-> <<>>, error |-> "", raised |-> "", via |-> "idle"]

(***************************************************************************)
(* Configuration and StockOCRService._init_clients                         *)
(*                                                                         *)
(* An API key is "none" (None or the empty string), "placeholder" (it      *)
(* starts with your_) or "real"; gemini_ctor and anthropic_ctor say what   *)
(* constructing that client does in this process: "ok" or "raise".         *)
(* Python's None is the string "None".                                     *)
(***************************************************************************)
KeyKinds == {"none", "placeholder", "real"}

Configs ==
    [gemini_api_key : KeyKinds, anthropic_api_key : KeyKinds,
     gemini_ctor : {"ok", "raise"}, anthropic_ctor : {"ok", "raise"}]

\* config.key and not config.key.startswith('your_')
KeyConfigured(k) == k # "none" /\ k # "placeholder"

\* _init_clients trying Anthropic before Gemini
InitClientsAnthropicFirst(c) ==
    LET gemini == IF KeyConfigured(c.gemini_api_key) THEN <<"gemini">> ELSE <<>>
        anthropic == IF KeyConfigured(c.anthropic_api_key) THEN <<"anthropic">> ELSE <<>>
    IN  IF KeyConfigured(c.anthropic_api_key) /\ c.anthropic_ctor = "ok"
        THEN [provider |-> "anthropic", gemini_client |-> "None",
              anthropic_client |-> "client", attempts |-> anthropic]
        ELSE IF KeyConfigured(c.gemini_api_key) /\ c.gemini_ctor = "ok"
        THEN [provider |-> "gemini", gemini_client |-> "client",
              anthropic_client |-> "None", attempts |-> anthropic \o gemini]
        ELSE [provider |-> "None", gemini_client |-> "None",
              anthropic_client |-> "None", attempts |-> anthropic \o gemini]

\* the fields __init__ and _init_clients leave in the instance, and the client
\* constructors that were called, in order
_init_clients(c) ==
    LET gemini == IF KeyConfigured(c.gemini_api_key) THEN <<"gemini">> ELSE <<>>
        anthropic == IF KeyConfigured(c.anthropic_api_key) THEN <<"anthropic">> ELSE <<>>
    IN  IF KeyConfigured(c.gemini_api_key) /\ c.gemini_ctor = "ok"
        THEN [provider |-> "gemini", gemini_client |-> "client",
              anthropic_client |-> "None", attempts |-> gemini]
        ELSE IF KeyConfigured(c.anthropic_api_key) /\ c.anthropic_ctor = "ok"
        THEN [provider |-> "anthropic", gemini_client |-> "None",
              anthropic_client |-> "client", attempts |-> gemini \o anthropic]
        ELSE [provider |-> "None", gemini_client |-> "None",
              anthropic_client |-> "None", attempts |-> gemini \o anthropic]

\* is_available()
is_available(provider) == provider # "None"

(***************************************************************************)
(* The recognition entry points                                            *)
(*                                                                         *)
(* The outcome of one provider call is [kind, text]: the client raises     *)
(* ("raise"), answers nothing ("none"), or answers the text ("text").      *)
(* An operation yields [codes, error, raised, via, called]: the pair it    *)
(* returns, the exception it raises ("" for none), the return statement of *)
(* _parse_response the pair comes from ("idle" when it did not run), and   *)
(* whether the provider client was invoked.                                *)
(***************************************************************************)
ErrNotConfigured == "OCR service not configured: set GEMINI_API_KEY or ANTHROPIC_API_KEY"
ErrUnknownProvider == "unknown OCR provider"
ErrRecognizeFailed == "recognition failed: <exception>"
ErrGeminiEmpty == "Gemini returned an empty response"
ErrAnthropicEmpty == "Anthropic returned an empty response"
ErrAnthropicNoText == "Anthropic returned empty text"
ErrFileMissing == "file does not exist: <path>"
ErrEndpoint == "error during recognition: <exception>"

Return(cs, err, called) ==
    [codes |-> cs, error |-> err, raised |-> "", via |-> "idle", called |-> called]

Raise(exc, called) ==
    [codes |-> <<>>, error |-> "", raised |-> exc, via |-> "idle", called |-> called]

\* return self._parse_response(text), after the provider client answered
ReturnParsed(text) == _parse_response(text) @@ [called |-> TRUE]

_recognize_with_gemini(outcome) ==
    IF outcome.kind = "raise" THEN Raise("ProviderError", TRUE)
    ELSE IF outcome.kind = "none" \/ RawText(outcome.text) = <<>>
    THEN Return(<<>>, ErrGeminiEmpty, TRUE)
    ELSE ReturnParsed(outcome.text)

_recognize_with_anthropic(outcome) ==
    IF outcome.kind = "raise" THEN Raise("ProviderError", TRUE)
    ELSE IF outcome.kind = "none" THEN Return(<<>>, ErrAnthropicEmpty, TRUE)
    ELSE IF RawText(outcome.text) = <<>> THEN Return(<<>>, ErrAnthropicNoText, TRUE)
    ELSE ReturnParsed(outcome.text)

\* except Exception as e: return [], f"识别失败: {str(e)}"
CatchAll(r) == IF r.raised # "" THEN Return(<<>>, ErrRecognizeFailed, r.called) ELSE r

\* recognize_from_base64 without the is_available() check
RecognizeWithoutAvailabilityCheck(provider, outcome) ==
    IF provider = "gemini" THEN CatchAll(_recognize_with_gemini(outcome))
    ELSE IF provider = "anthropic" THEN CatchAll(_recognize_with_anthropic(outcome))
    ELSE Return(<<>>, ErrUnknownProvider, FALSE)

recognize_from_base64(provider, outcome) ==
    IF ~is_available(provider) THEN Return(<<>>, ErrNotConfigured, FALSE)
    ELSE IF provider = "gemini" THEN CatchAll(_recognize_with_gemini(outcome))
    ELSE IF provider = "anthropic" THEN CatchAll(_recognize_with_anthropic(outcome))
    ELSE Return(<<>>, ErrUnknownProvider, FALSE)

\* file is what the path names: "missing" (it does not exist), "readable", or
\* "unreadable" (open or read raises OSError: a directory, no permission)
recognize_from_file(provider, file, outcome) ==
    IF file = "missing" THEN Return(<<>>, ErrFileMissing, FALSE)
    ELSE IF file = "unreadable" THEN Raise("OSError", FALSE)
    ELSE recognize_from_base64(provider, outcome)

(***************************************************************************)
(* The endpoint POST /api/v1/ocr/recognize                                 *)
(***************************************************************************)
OcrResponse(success, cs, count, provider, err) ==
    [success |-> success, codes |-> cs, count |-> count, provider |-> provider,
     error |-> err]

\* the response of recognize_stock_codes; r is what its call of
\* recognize_from_base64 yields when the service is available
recognize_stock_codes(provider, r) ==
    IF ~is_available(provider) THEN OcrResponse(FALSE, <<>>, 0, "None", ErrNotConfigured)
    ELSE IF r.raised # "" THEN OcrResponse(FALSE, <<>>, 0, "None", ErrEndpoint)
    ELSE IF r.error # "" THEN OcrResponse(FALSE, <<>>, 0, provider, r.error)
    ELSE OcrResponse(TRUE, r.codes, Len(r.codes), provider, "None")

NoCall == [op |-> "none", file |-> "none", outcome |-> "none", text |-> <<>>]
NoResult == Return(<<>>, "", FALSE)
NoResponse == OcrResponse(FALSE, <<>>, 0, "None", "None")

(***************************************************************************)
(* Inputs of the validator                                                 *)
(***************************************************************************)
\* the characters single candidates are drawn from: two digits, a lower-case and
\* an upper-case ASCII letter, a letter outside ASCII
CandidateChars == {"0", "6", "a", "A", "U+00DF"}

\* every digit/letter string of length 1..MaxLen over CandidateChars
CandidateStrings == UNION {[1..n -> CandidateChars] : n \in 1..MaxLen}

\* the elements candidate lists are drawn from
CodePool ==
    { <<"A", "A", "P", "L">>, <<"a", "a", "p", "l">>, <<" ", "A", "A", "P", "L">>,
      <<"6", "0", "0", "5", "1", "9">>, <<"7", "0", "0", "0", "0", "0">>,
      <<"0", "0", "7", "0", "0">>, <<" ", "0", "0", "7", "0", "0", "\n">>,
      <<>>, <<"T">>, <<"A", "1">>, <<"A", "B", "C", "D", "E", "F">>,
      Number(<<"6", "0", "0", "5", "1", "9">>) }

\* every list of at most MaxCodes elements of CodePool
CodeLists == UNION {[1..n -> CodePool] : n \in 0..MaxCodes}

ParkValidate == codes = <<>> /\ valid_codes = <<>> /\ revalidated = <<>> /\ vpc = "idle"
ParkParse == response_text = <<>> /\ parsed = NotParsed /\ ppc = "idle"
ParkService ==
    /\ config = [gemini_api_key |-> "none", anthropic_api_key |-> "none",
                 gemini_ctor |-> "ok", anthropic_ctor |-> "ok"]
    /\ spc = "idle"
    /\ _provider = "None"
    /\ _gemini_client = "None"
    /\ _anthropic_client = "None"
    /\ ctor_attempts = <<>>
    /\ backend_calls = 0
    /\ call = NoCall
    /\ result = NoResult
    /\ response = NoResponse
ParkSingleton ==
    /\ _ocr_service = 0
    /\ tpc = <<>>
    /\ local = <<>>
    /\ returned = <<>>
    /\ constructed = 0

(***************************************************************************)
(* _validate_codes as an operation                                         *)
(***************************************************************************)
\* a call _validate_codes(codes)
ValidateCodes ==
    /\ vpc = "start"
    /\ valid_codes' = _validate_codes(codes)
    /\ vpc' = "done"
    /\ UNCHANGED <<codes, revalidated>>
    /\ UNCHANGED <<vParse, vService, vSingleton>>

\* a second call, on the list the first one returned
Revalidate ==
    /\ vpc = "done"
    /\ revalidated' = _validate_codes(valid_codes)
    /\ vpc' = "again"
    /\ UNCHANGED <<codes, valid_codes>>
    /\ UNCHANGED <<vParse, vService, vSingleton>>

InitCandidate ==
    /\ codes \in {<<c>> : c \in CandidateStrings}
    /\ valid_codes = <<>>
    /\ revalidated = <<>>
    /\ vpc = "start"
    /\ ParkParse
    /\ ParkService
    /\ ParkSingleton

NextCandidate == ValidateCodes

\* _validate_codes on every one-element list of a digit/letter string
SpecCandidate == InitCandidate /\ [][NextCandidate]_vars

InitValidate ==
    /\ codes \in CodeLists
    /\ valid_codes = <<>>
    /\ revalidated = <<>>
    /\ vpc = "start"
    /\ ParkParse
    /\ ParkService
    /\ ParkSingleton

NextValidate == ValidateCodes \/ Revalidate

\* _validate_codes on every candidate list, then on its own output
SpecValidate == InitValidate /\ [][NextValidate]_vars

(***************************************************************************)
(* The market code-format rules as the specification words them            *)
(***************************************************************************)
RegisteredPrefixes ==
    { <<"6", "0", "0">>, <<"6", "0", "1">>, <<"6", "0", "3">>, <<"6", "0", "5">>,
      <<"0", "0", "0">>, <<"0", "0", "1">>, <<"0", "0", "2">>,
      <<"3", "0", "0">>, <<"3", "0", "1">>,
      <<"6", "8", "8">>, <<"6", "8", "9">>,
      <<"8", "3", "0">>, <<"8", "3", "1">>, <<"8", "3", "2">>, <<"8", "3", "3">>,
      <<"4", "3", "0">>, <<"4", "2", "0">> }

IsAShare(c) == Len(c) = 6 /\ AllIn(c, Digits) /\ SubSeq(c, 1, 3) \in RegisteredPrefixes
IsHongKong(c) == Len(c) = 5 /\ AllIn(c, Digits)
IsUS(c) == Len(c) >= 1 /\ Len(c) <= 5 /\ AllIn(c, AsciiLetters)
MatchesMarketRule(c) == IsAShare(c) \/ IsHongKong(c) \/ IsUS(c)

\* the input list with each element as a trimmed string
Trimmed(cs) == [i \in 1..Len(cs) |-> Strip(Str(cs[i]))]

\* out lists exactly the elements of t at the positions K, in the order of t
IsSubsequenceAt(out, t, K) ==
    /\ Len(out) = Cardinality(K)
    /\ \E f \in [1..Len(out) -> K] :
          /\ \A a, b \in 1..Len(out) : a < b => f[a] < f[b]
          /\ \A a \in 1..Len(out) : out[a] = t[f[a]]

(***************************************************************************)
(* Claims about the validator                                              *)
(***************************************************************************)
\* C1: for every digit/letter string c of length 1..7, _validate_codes([c])
\* returns [c] if c matches one of the three market rules (6 ASCII digits with a
\* registered prefix, exactly 5 ASCII digits, 1 to 5 ASCII letters), and the
\* empty list otherwise.
C1_AcceptsIffMarketRule ==
    (vpc = "done" /\ Len(codes) = 1 /\ AllIn(codes[1], Digits \cup Letters))
        => valid_codes = (IF MatchesMarketRule(codes[1]) THEN codes ELSE <<>>)

\* C1 restricted to candidates made of ASCII digits and ASCII letters only.
AsciiCandidatesFollowMarketRules ==
    (vpc = "done" /\ Len(codes) = 1 /\ AllIn(codes[1], Digits \cup AsciiLetters))
        => valid_codes = (IF MatchesMarketRule(codes[1]) THEN codes ELSE <<>>)

\* C2: the list _validate_codes returns holds no two elements that are equal
\* after case normalization, and every element satisfies a market rule.
C2_NoNormalizedDuplicates ==
    vpc = "done" =>
        /\ \A i, j \in 1..Len(valid_codes) :
              i # j => Upper(valid_codes[i]) # Upper(valid_codes[j])
        /\ \A i \in 1..Len(valid_codes) : MatchesMarketRule(valid_codes[i])

\* C3: the output of _validate_codes is exactly the subsequence of the trimmed
\* input made of the first occurrence of each distinct valid trimmed string, in
\* input order.
C3_FirstOccurrenceOrder ==
    vpc = "done" =>
        IsSubsequenceAt(valid_codes, Trimmed(codes),
                        {i \in 1..Len(codes) :
                            /\ _is_valid_code(Trimmed(codes)[i])
                            /\ \A j \in 1..(i - 1) : Trimmed(codes)[j] # Trimmed(codes)[i]})

\* reached: a list whose second element repeats the first one once trimmed, both
\* written differently, followed by a further valid code that is kept
C3_Witness ==
    /\ vpc = "done"
    /\ Len(codes) = 3
    /\ codes[1] # codes[2]
    /\ Trimmed(codes)[1] = Trimmed(codes)[2]
    /\ Len(valid_codes) = 2
    /\ valid_codes[2] = Trimmed(codes)[3]

\* C4: _validate_codes(_validate_codes(x)) = _validate_codes(x).
C4_Idempotent == vpc = "again" => revalidated = valid_codes

\* reached: the second call ran on a non-empty list from which the first call
\* had dropped a duplicate or an invalid candidate
C4_Witness ==
    /\ vpc = "again"
    /\ valid_codes # <<>>
    /\ Len(valid_codes) < Len(codes)
    /\ \E i \in 1..Len(codes) : codes[i] # Trimmed(codes)[i]

(***************************************************************************)
(* _parse_response as an operation                                         *)
(***************************************************************************)
\* the stretches of prose responses are built from
ProsePool ==
    { Prose(<<"6", "0", "0", "5", "1", "9", " ">>), Prose(<<"0", "0", "7", "0", "0", " ">>),
      Prose(<<"9", "3", "0", "0", "0", "0", " ">>), Prose(<<"6", "8", "8", "0", "0", "1">>),
      Prose(<<"x">>) }

\* the objects responses are built from
ObjectPool ==
    { Object(TRUE, "ok", "list", <<<<"6", "0", "0", "5", "1", "9">>, <<"A", "A", "P", "L">>>>),
      Object(TRUE, "ok", "list", <<<<"1", "2", "3", "4", "5", "6">>>>),
      Object(TRUE, "ok", "list",
             <<Number(<<"3", "0", "0", "7", "5", "0">>), <<" ", "3", "0", "0", "7", "5", "0">>>>),
      Object(TRUE, "ok", "list", <<>>),
      Object(TRUE, "bad", "list", <<<<"0", "0", "0", "0", "0", "1">>>>),
      Object(TRUE, "ok", "null", <<>>),
      Object(TRUE, "ok", "number", <<>>),
      Object(TRUE, "ok", "missing", <<>>),
      Object(FALSE, "ok", "missing", <<>>) }

SegmentPool == ProsePool \cup ObjectPool

\* every response of at most MaxSegments segments
Responses == UNION {[1..n -> SegmentPool] : n \in 0..MaxSegments}

\* a call _parse_response(response_text)
ParseResponse ==
    /\ ppc = "start"
    /\ parsed' = _parse_response(response_text)
    /\ ppc' = "done"
    /\ UNCHANGED response_text
    /\ UNCHANGED <<vValidate, vService, vSingleton>>

InitParse ==
    /\ response_text \in Responses
    /\ parsed = NotParsed
    /\ ppc = "start"
    /\ ParkValidate
    /\ ParkService
    /\ ParkSingleton

NextParse == ParseResponse

\* _parse_response on every response text
SpecParse == InitParse /\ [][NextParse]_vars

(***************************************************************************)
(* The service: construction, the entry points, the endpoint               *)
(***************************************************************************)
\* the texts a provider answers with: nothing, a codes array with valid codes, one
\* with invalid codes only, a codes value that is no list, prose with and without
\* a code
ServiceTexts ==
    { <<>>,
      <<Object(TRUE, "ok", "list", <<<<"6", "0", "0", "5", "1", "9">>, <<"A", "A", "P", "L">>>>)>>,
      <<Object(TRUE, "ok", "list", <<<<"1", "2", "3", "4", "5", "6">>>>)>>,
      <<Object(TRUE, "ok", "number", <<>>)>>,
      <<Prose(<<"0", "0", "7", "0", "0", " ">>)>>,
      <<Prose(<<"x">>)>> }

\* what a provider call can do
Outcomes ==
    {[kind |-> "raise", text |-> <<>>], [kind |-> "none", text |-> <<>>]}
    \cup {[kind |-> "text", text |-> t] : t \in ServiceTexts}

Files == {"missing", "readable", "unreadable"}

\* StockOCRService(): __init__ with _init_clients
Construct ==
    /\ spc = "new"
    /\ _provider' = _init_clients(config).provider
    /\ _gemini_client' = _init_clients(config).gemini_client
    /\ _anthropic_client' = _init_clients(config).anthropic_client
    /\ ctor_attempts' = _init_clients(config).attempts
    /\ spc' = "ready"
    /\ UNCHANGED <<config, backend_calls, call, result, response>>
    /\ UNCHANGED <<vValidate, vParse, vSingleton>>

\* a call recognize_from_base64(image_base64, mime_type)
RecognizeFromBase64 ==
    /\ spc = "ready"
    /\ backend_calls < MaxCalls
    /\ \E o \in Outcomes :
          /\ call' = [op |-> "base64", file |-> "none", outcome |-> o.kind, text |-> o.text]
          /\ result' = recognize_from_base64(_provider, o)
    /\ backend_calls' = IF result'.called THEN backend_calls + 1 ELSE backend_calls
    /\ UNCHANGED <<config, spc, _provider, _gemini_client, _anthropic_client,
                   ctor_attempts, response>>
    /\ UNCHANGED <<vValidate, vParse, vSingleton>>

\* a call recognize_from_file(file_path)
RecognizeFromFile ==
    /\ spc = "ready"
    /\ backend_calls < MaxCalls
    /\ \E f \in Files, o \in Outcomes :
          /\ call' = [op |-> "file", file |-> f, outcome |-> o.kind, text |-> o.text]
          /\ result' = recognize_from_file(_provider, f, o)
    /\ backend_calls' = IF result'.called THEN backend_calls + 1 ELSE backend_calls
    /\ UNCHANGED <<config, spc, _provider, _gemini_client, _anthropic_client,
                   ctor_attempts, response>>
    /\ UNCHANGED <<vValidate, vParse, vSingleton>>

\* a request POST /api/v1/ocr/recognize; get_ocr_service() builds the service on
\* the first request, and recognize_from_base64 is called only when the service
\* is available
RecognizeStockCodes ==
    /\ spc \in {"new", "ready"}
    /\ backend_calls < MaxCalls
    /\ IF spc = "new"
       THEN /\ _provider' = _init_clients(config).provider
            /\ _gemini_client' = _init_clients(config).gemini_client
            /\ _anthropic_client' = _init_clients(config).anthropic_client
            /\ ctor_attempts' = _init_clients(config).attempts
       ELSE UNCHANGED <<_provider, _gemini_client, _anthropic_client, ctor_attempts>>
    /\ spc' = "ready"
    /\ \/ /\ is_available(_provider')
          /\ \E o \in Outcomes :
                /\ call' = [op |-> "endpoint", file |-> "none", outcome |-> o.kind,
                            text |-> o.text]
                /\ result' = recognize_from_base64(_provider', o)
          /\ backend_calls' = IF result'.called THEN backend_calls + 1 ELSE backend_calls
       \/ /\ ~is_available(_provider')
          /\ call' = [op |-> "endpoint", file |-> "none", outcome |-> "none", text |-> <<>>]
          /\ UNCHANGED <<result, backend_calls>>
    /\ response' = recognize_stock_codes(_provider', result')
    /\ UNCHANGED config
    /\ UNCHANGED <<vValidate, vParse, vSingleton>>

Init ==
    /\ config \in Configs
    /\ spc = "new"
    /\ _provider = "None"
    /\ _gemini_client = "None"
    /\ _anthropic_client = "None"
    /\ ctor_attempts = <<>>
    /\ backend_calls = 0
    /\ call = NoCall
    /\ result = NoResult
    /\ response = NoResponse
    /\ ParkValidate
    /\ ParkParse
    /\ ParkSingleton

Next == Construct \/ RecognizeFromBase64 \/ RecognizeFromFile \/ RecognizeStockCodes

\* one service instance under every configuration and sequence of calls
Spec == Init /\ [][Next]_vars

(***************************************************************************)
(* get_ocr_service under concurrent first calls                            *)
(*                                                                         *)
(* The endpoint is a plain def, which the framework runs on a pool of      *)
(* threads.  The interpreter may switch threads between the read of the    *)
(* global, the constructor call, the store to the global and the read that *)
(* is returned.  Instances are numbered from 1 in the order they are       *)
(* constructed; 0 is None.                                                 *)
(***************************************************************************)
Threads == 1..NumThreads

\* if _ocr_service is None:
CheckGlobal(t) ==
    /\ tpc[t] = "check"
    /\ tpc' = [tpc EXCEPT ![t] = IF _ocr_service = 0 THEN "construct" ELSE "return"]
    /\ UNCHANGED <<_ocr_service, local, returned, constructed>>
    /\ UNCHANGED <<vValidate, vParse, vService>>

\* StockOCRService()
ConstructService(t) ==
    /\ tpc[t] = "construct"
    /\ constructed' = constructed + 1
    /\ local' = [local EXCEPT ![t] = constructed + 1]
    /\ tpc' = [tpc EXCEPT ![t] = "assign"]
    /\ UNCHANGED <<_ocr_service, returned>>
    /\ UNCHANGED <<vValidate, vParse, vService>>

\* _ocr_service = <the new instance>
AssignGlobal(t) ==
    /\ tpc[t] = "assign"
    /\ _ocr_service' = local[t]
    /\ tpc' = [tpc EXCEPT ![t] = "return"]
    /\ UNCHANGED <<local, returned, constructed>>
    /\ UNCHANGED <<vValidate, vParse, vService>>

\* return _ocr_service
ReturnGlobal(t) ==
    /\ tpc[t] = "return"
    /\ returned' = [returned EXCEPT ![t] = _ocr_service]
    /\ tpc' = [tpc EXCEPT ![t] = "done"]
    /\ UNCHANGED <<_ocr_service, local, constructed>>
    /\ UNCHANGED <<vValidate, vParse, vService>>

InitSingleton ==
    /\ _ocr_service = 0
    /\ tpc = [t \in Threads |-> "check"]
    /\ local = [t \in Threads |-> 0]
    /\ returned = [t \in Threads |-> 0]
    /\ constructed = 0
    /\ ParkValidate
    /\ ParkParse
    /\ ParkService

NextSingleton ==
    \E t \in Threads :
        CheckGlobal(t) \/ ConstructService(t) \/ AssignGlobal(t) \/ ReturnGlobal(t)

\* the first calls of get_ocr_service, one per thread, interleaved
SpecSingleton == InitSingleton /\ [][NextSingleton]_vars

(***************************************************************************)
(* Claims about the parser, the service and the singleton                  *)
(***************************************************************************)
\* C5: whenever _parse_response returns an empty code list it returns a non-empty
\* error with it, also when the codes array holds only invalid candidates; so the
\* endpoint never answers success=true with zero codes.
C5_EmptyListHasError ==
    /\ (result.via \in {"json", "regex", "none"} /\ result.codes = <<>>)
           => result.error # ""
    /\ response.success => response.codes # <<>>

\* the credentials of the configuration that can give a client
GeminiUsable == config.gemini_api_key = "real" /\ config.gemini_ctor = "ok"
AnthropicUsable == config.anthropic_api_key = "real" /\ config.anthropic_ctor = "ok"

\* C6: when no credential is configured, or each configured one is a placeholder
\* or fails client construction, is_available() is false and every call of
\* recognize_from_base64 returns ([], the "not configured" error) without any
\* provider call.
C6_UnconfiguredNeverCalls ==
    (spc = "ready" /\ ~GeminiUsable /\ ~AnthropicUsable) =>
        /\ ~is_available(_provider)
        /\ backend_calls = 0
        /\ call.op = "base64" =>
              /\ result.codes = <<>>
              /\ result.error = ErrNotConfigured
              /\ result.raised = ""
              /\ ~result.called

\* reached: a placeholder Gemini key and an Anthropic key whose client cannot be
\* constructed, and recognize_from_base64 was called with a provider that would
\* have answered
C6_Witness ==
    /\ spc = "ready"
    /\ config.gemini_api_key = "placeholder"
    /\ config.anthropic_api_key = "real"
    /\ config.anthropic_ctor = "raise"
    /\ call.op = "base64"
    /\ call.outcome = "text"
    /\ call.text # <<>>
    /\ result.error = ErrNotConfigured

\* the first object of the text decodes to a codes value that is no list
CodesNotAList(text) ==
    /\ JsonMatch(text) # 0
    /\ text[JsonMatch(text)].form = "ok"
    /\ text[JsonMatch(text)].val = "number"

\* the last call failed: no file, no provider, no answer, or an unusable answer
CallFailed ==
    \/ call.file \in {"missing", "unreadable"}
    \/ ~is_available(_provider)
    \/ call.outcome \in {"raise", "none"}
    \/ RawText(call.text) = <<>>
    \/ CodesNotAList(call.text)

\* C7: recognize_from_base64 and recognize_from_file never raise: whatever the
\* provider call, the parsing and the file reading do, they return a pair, with
\* an empty list and a non-empty error on failure.
C7_NothingEscapes ==
    call.op \in {"base64", "file"} =>
        /\ result.raised = ""
        /\ CallFailed => (result.codes = <<>> /\ result.error # "")

\* C7 for recognize_from_base64 alone.
Base64NeverRaises ==
    call.op = "base64" =>
        /\ result.raised = ""
        /\ CallFailed => (result.codes = <<>> /\ result.error # "")

\* C8: the provider bound at initialization is Gemini iff the Gemini credential
\* is configured, no placeholder, and its client is constructed; Anthropic iff
\* Gemini was not bound and the same holds of the Anthropic credential (whose
\* constructor is not called once Gemini is bound); None otherwise, with the
\* service unavailable.  No later call changes the provider.
C8_ProviderPriority ==
    /\ [](spc = "ready" =>
            /\ _provider = "gemini" <=> GeminiUsable
            /\ _provider = "anthropic" <=> (~GeminiUsable /\ AnthropicUsable)
            /\ _provider = "None" <=> (~GeminiUsable /\ ~AnthropicUsable)
            /\ is_available(_provider) <=> (GeminiUsable \/ AnthropicUsable)
            /\ _provider = "gemini" =>
                  (_gemini_client = "client" /\ _anthropic_client = "None"
                   /\ ctor_attempts = <<"gemini">>)
            /\ _provider = "anthropic" => _anthropic_client = "client")
    /\ [][spc = "ready" =>
            /\ _provider' = _provider
            /\ _gemini_client' = _gemini_client
            /\ _anthropic_client' = _anthropic_client]_vars

\* reached: the Gemini client could not be constructed, Anthropic was bound, and
\* a call whose provider raised has been answered with an error
C8_Witness ==
    /\ spc = "ready"
    /\ config.gemini_api_key = "real"
    /\ config.gemini_ctor = "raise"
    /\ _provider = "anthropic"
    /\ ctor_attempts = <<"gemini", "anthropic">>
    /\ call.outcome = "raise"
    /\ result.error = ErrRecognizeFailed
    /\ backend_calls = MaxCalls

\* C9: under any interleaving of concurrent first calls of get_ocr_service,
\* StockOCRService is constructed at most once and every call returns the same
\* instance.
C9_SingleInstance ==
    /\ constructed <= 1
    /\ \A t, u \in DOMAIN tpc :
          (tpc[t] = "done" /\ tpc[u] = "done") => returned[t] = returned[u]

\* structured extraction yields nothing: no object holds "codes", the first one
\* that does cannot be decoded, or its codes array is missing or empty
StructuredYieldsNothing(text) ==
    LET objs == {i \in 1..Len(text) : text[i].kind = "object" /\ text[i].quoted}
    IN  \/ objs = {}
        \/ \E m \in objs :
              /\ \A j \in objs : m <= j
              /\ \/ text[m].form = "bad"
                 \/ text[m].val \in {"missing", "null"}
                 \/ text[m].val = "list" /\ text[m].items = <<>>

\* the first object that holds "codes" decodes with a non-empty codes array
StructuredYieldsCodes(text) ==
    \E m \in 1..Len(text) :
        /\ text[m].kind = "object" /\ text[m].quoted
        /\ \A j \in 1..(m - 1) : ~(text[j].kind = "object" /\ text[j].quoted)
        /\ text[m].form = "ok" /\ text[m].val = "list" /\ text[m].items # <<>>
        /\ parsed.codes = _validate_codes(text[m].items)

\* the valid runs of n digits of the raw text, each once, in text order
IsValidRunsInOrder(out, raw, n) ==
    LET runs == FindAll(raw, n)
    IN  IsSubsequenceAt(out, runs,
                        {i \in 1..Len(runs) :
                            /\ _is_valid_code(runs[i])
                            /\ \A j \in 1..(i - 1) : runs[j] # runs[i]})

\* C10: the pattern-based fallback runs iff structured extraction yields
\* nothing; with a decoded non-empty codes array the result is
\* _validate_codes(codes) and nothing else of the text is scanned; when the
\* fallback runs the result is the valid 6-digit runs in text order followed by
\* the valid 5-digit runs in text order.
C10_FallbackIffNothingStructured ==
    ppc = "done" =>
        /\ parsed.via \in {"regex", "none"} <=> StructuredYieldsNothing(response_text)
        /\ parsed.via = "json" <=> StructuredYieldsCodes(response_text)
        /\ parsed.via \in {"regex", "none"} =>
              LET raw == RawText(response_text)
              IN  \E k \in 0..Len(parsed.codes) :
                      /\ IsValidRunsInOrder(SubSeq(parsed.codes, 1, k), raw, 6)
                      /\ IsValidRunsInOrder(SubSeq(parsed.codes, k + 1, Len(parsed.codes)),
                                            raw, 5)

\* reached: the fallback ran on a text whose 5-digit run comes before its 6-digit
\* run, and put the 6-digit code first
C10_Witness ==
    /\ ppc = "done"
    /\ parsed.via = "regex"
    /\ response_text[1] = Prose(<<"0", "0", "7", "0", "0", " ">>)
    /\ parsed.codes = << <<"6", "0", "0", "5", "1", "9">>, <<"0", "0", "7", "0", "0">> >>

\* reached: a decoded codes array was taken although the text holds a valid
\* 6-digit run outside the object
JsonPathSkipsProse ==
    /\ ppc = "done"
    /\ parsed.via = "json"
    /\ Len(response_text) = 2
    /\ response_text[1] = Prose(<<"6", "8", "8", "0", "0", "1">>)
    /\ parsed.codes = <<>>

====
